---- MODULE Spec2Model ----
(***************************************************************************)
(* Smart-grid algorithm dashboard (src/main.py): the instrumented sorting  *)
(* and searching routines, the DFS/BFS traversals, the shortest-path,      *)
(* path-count and greedy generation-plan handlers, the request queue and   *)
(* history stack of a session, over the fixed reference network.           *)
(*                                                                         *)
(* Python lists are objects with identity: `heap` is the sequence of live  *)
(* list objects, a reference is an index into it.  Python indices are      *)
(* 0-based; At/Swap translate them to the 1-based TLA+ sequences.          *)
(***************************************************************************)
EXTENDS Integers, Sequences, FiniteSets, TLC

\* ---------------------------------------------------------------- bounds
MaxLen == 4          \* longest list handed to a sorter or a searcher
MaxKey == 4          \* keys are drawn from 1..MaxKey

MaxNodes == 4        \* nodes of a graph handed to dfs/bfs (beside the reference)
MaxEdges == 4        \* edges of such a graph
MaxWeight == 2       \* an edge of such a graph is MaxWeight - 1 or MaxWeight long
MaxSources == 2      \* generation sources handed to the greedy plan
MaxCap == 2          \* a source's capacity is in 0..MaxCap
MaxCost == 3         \* a source's cost per MW is in 1..MaxCost
MaxDemand == 5       \* demand is in 0..MaxDemand
MaxCutoff == 3       \* on such a graph max_length is in 0..MaxCutoff
MaxQueue == 2        \* requests waiting in the power queue
MaxStack == 2        \* actions kept on the history stack

VARIABLES
  heap,        \* live list objects; heap[1] is the caller's list
  ret,         \* what the last sorter/searcher call returned
  grid_graph,  \* the graph object: node order, node and edge attributes, adjacency
  args,        \* start and target handed to dfs and bfs
  frame,       \* locals of the running dfs/bfs call and its position
  rets,        \* what dfs and bfs returned
  power_sources, \* the sources handed to the greedy plan, in dict order
  demand,        \* the demand handed to the greedy plan
  solver,        \* locals of the greedy plan handler and its position
  sel,           \* source and target selected on the shortest-path tab
  route,         \* what the shortest-path handler obtained
  count,         \* source, target and max_length set on the path-count tab
  all_paths,     \* what the last press of the path-count button listed
  earlier,       \* what the press before that one listed
  power_queue,   \* grid_data.power_queue
  history_stack  \* grid_data.history_stack

listVars == <<heap, ret>>
travVars == <<args, frame, rets>>
greedyVars == <<power_sources, demand, solver>>
pathVars == <<sel, route>>
countVars == <<count, all_paths, earlier>>
sessionVars == <<power_queue, history_stack>>
vars == <<heap, ret, grid_graph, args, frame, rets, power_sources, demand,
          solver, sel, route, count, all_paths, earlier, power_queue,
          history_stack>>

\* what the handlers of one page leave alone
notLists == <<grid_graph, travVars, greedyVars, pathVars, countVars, sessionVars>>
notTraversal == <<listVars, greedyVars, pathVars, countVars, sessionVars>>
notGreedy == <<grid_graph, listVars, travVars, pathVars, countVars, sessionVars>>
notPaths == <<listVars, travVars, greedyVars, countVars, sessionVars>>
notCount == <<listVars, travVars, greedyVars, pathVars, sessionVars>>

\* ------------------------------------------------------------- list items
\* show_sorting_algorithms builds records with an 'id' and the sort field;
\* key_func = lambda x: x[sort_key].
key_func(item) == item.key

Keys == 1..MaxKey
Targets == 0..(MaxKey + 1)

KeySeqs == UNION {[1..n -> Keys] : n \in 0..MaxLen}

\* power_plants: the i-th record carries id i and the key drawn for it
MakePlants(ks) == [i \in 1..Len(ks) |-> [id |-> i, key |-> ks[i]]]

At(a, k) == a[k + 1]

\* arr[x], arr[y] = arr[y], arr[x]
Swap_overwrite(a, x, y) == [a EXCEPT ![x + 1] = a[y + 1]]

Swap(a, x, y) == [a EXCEPT ![x + 1] = a[y + 1], ![y + 1] = a[x + 1]]

\* arr.copy(): a new list object with the same items
list_copy_alias(h, a) == [heap |-> h, ref |-> a]

list_copy(h, a) == [heap |-> Append(h, h[a]), ref |-> Len(h) + 1]

\* ------------------------------------------------------------ bubble_sort
\* st = [heap, comparisons, swaps]; a is the reference held by local `arr`.
\* One pass of the inner loop body: count, compare, exchange.
bubble_step_ge(st, a, j) ==
  LET val1 == key_func(At(st.heap[a], j))
      val2 == key_func(At(st.heap[a], j + 1))
      st1 == [st EXCEPT !.comparisons = @ + 1]
  IN IF val1 >= val2
     THEN [st1 EXCEPT !.heap[a] = Swap(@, j, j + 1), !.swaps = @ + 1]
     ELSE st1

bubble_step_swap_uncounted(st, a, j) ==
  LET val1 == key_func(At(st.heap[a], j))
      val2 == key_func(At(st.heap[a], j + 1))
      st1 == [st EXCEPT !.comparisons = @ + 1]
  IN IF val1 > val2
     THEN [st1 EXCEPT !.heap[a] = Swap(@, j, j + 1)]
     ELSE st1

bubble_step(st, a, j) ==
  LET val1 == key_func(At(st.heap[a], j))
      val2 == key_func(At(st.heap[a], j + 1))
      st1 == [st EXCEPT !.comparisons = @ + 1]
  IN IF val1 > val2
     THEN [st1 EXCEPT !.heap[a] = Swap(@, j, j + 1), !.swaps = @ + 1]
     ELSE st1

\* the end of range(0, n-i-1)
inner_range_full(n, i) == n - 1

inner_range(n, i) == n - i - 1

\* for j in range(0, n-i-1)
RECURSIVE bubble_inner(_, _, _, _, _)
bubble_inner(st, a, n, i, j) ==
  IF j >= inner_range(n, i) THEN st
  ELSE bubble_inner(bubble_step(st, a, j), a, n, i, j + 1)

\* for i in range(n)
RECURSIVE bubble_outer(_, _, _, _)
bubble_outer(st, a, n, i) ==
  IF i >= n THEN st
  ELSE bubble_outer(bubble_inner(st, a, n, i, 0), a, n, i + 1)

bubble_sort(h, arr) ==
  LET c == list_copy(h, arr)
      n == Len(c.heap[c.ref])
      st == bubble_outer([heap |-> c.heap, comparisons |-> 0, swaps |-> 0],
                         c.ref, n, 0)
  IN [heap |-> st.heap, ref |-> c.ref,
      comparisons |-> st.comparisons, swaps |-> st.swaps]

\* ------------------------------------------------------------- quick_sort
\* body of the partition loop; r = [st, i]
partition_step_lt(r, a, pivot_val, j) ==
  LET current_val == key_func(At(r.st.heap[a], j))
      st1 == [r.st EXCEPT !.comparisons = @ + 1]
  IN IF current_val < pivot_val
     THEN [st |-> [st1 EXCEPT !.heap[a] = Swap(@, r.i + 1, j),
                              !.swaps = @ + 1],
           i |-> r.i + 1]
     ELSE [st |-> st1, i |-> r.i]

partition_step(r, a, pivot_val, j) ==
  LET current_val == key_func(At(r.st.heap[a], j))
      st1 == [r.st EXCEPT !.comparisons = @ + 1]
  IN IF current_val <= pivot_val
     THEN [st |-> [st1 EXCEPT !.heap[a] = Swap(@, r.i + 1, j),
                              !.swaps = @ + 1],
           i |-> r.i + 1]
     ELSE [st |-> st1, i |-> r.i]

\* for j in range(low, high)
RECURSIVE partition_loop(_, _, _, _, _)
partition_loop(r, a, pivot_val, j, high) ==
  IF j >= high THEN r
  ELSE partition_loop(partition_step(r, a, pivot_val, j),
                      a, pivot_val, j + 1, high)

partition_pivot_uncounted(st, a, low, high) ==
  LET pivot_val == key_func(At(st.heap[a], high))
      r == partition_loop([st |-> st, i |-> low - 1], a, pivot_val, low, high)
  IN [st |-> [r.st EXCEPT !.heap[a] = Swap(@, r.i + 1, high)],
      pi |-> r.i + 1]

partition(st, a, low, high) ==
  LET pivot_val == key_func(At(st.heap[a], high))
      r == partition_loop([st |-> st, i |-> low - 1], a, pivot_val, low, high)
  IN [st |-> [r.st EXCEPT !.heap[a] = Swap(@, r.i + 1, high),
                          !.swaps = @ + 1],
      pi |-> r.i + 1]

RECURSIVE quick_sort_rec(_, _, _, _)
quick_sort_rec(st, a, low, high) ==
  IF low < high
  THEN LET p == partition(st, a, low, high)
       IN quick_sort_rec(quick_sort_rec(p.st, a, low, p.pi - 1),
                         a, p.pi + 1, high)
  ELSE st

quick_sort(h, arr) ==
  LET c == list_copy(h, arr)
      st == quick_sort_rec([heap |-> c.heap, comparisons |-> 0, swaps |-> 0],
                           c.ref, 0, Len(c.heap[c.ref]) - 1)
  IN [heap |-> st.heap, ref |-> c.ref,
      comparisons |-> st.comparisons, swaps |-> st.swaps]

\* ---------------------------------------------------------- linear_search
\* one iteration of `for i, item in enumerate(arr)`: count, then test
linear_step_late(arr, target, i, comparisons) ==
  IF key_func(At(arr, i)) = target
  THEN [done |-> TRUE, index |-> i, comparisons |-> comparisons]
  ELSE [done |-> FALSE, index |-> -1, comparisons |-> comparisons + 1]

linear_step(arr, target, i, comparisons) ==
  IF key_func(At(arr, i)) = target
  THEN [done |-> TRUE, index |-> i, comparisons |-> comparisons + 1]
  ELSE [done |-> FALSE, index |-> -1, comparisons |-> comparisons + 1]

RECURSIVE linear_scan(_, _, _, _)
linear_scan(arr, target, i, comparisons) ==
  IF i >= Len(arr) THEN [index |-> -1, comparisons |-> comparisons]
  ELSE LET s == linear_step(arr, target, i, comparisons)
       IN IF s.done THEN [index |-> s.index, comparisons |-> s.comparisons]
          ELSE linear_scan(arr, target, i + 1, s.comparisons)

linear_search(arr, target) == linear_scan(arr, target, 0, 0)

\* ---------------------------------------------------------- binary_search
\* one iteration of `while left <= right`
binary_step_flipped(arr, target, left, right) ==
  LET mid == (left + right) \div 2
      mid_value == key_func(At(arr, mid))
  IN IF mid_value = target
     THEN [done |-> TRUE, mid |-> mid, left |-> left, right |-> right]
     ELSE IF mid_value > target
          THEN [done |-> FALSE, mid |-> mid, left |-> mid + 1, right |-> right]
          ELSE [done |-> FALSE, mid |-> mid, left |-> left, right |-> mid - 1]

binary_step_hit_left(arr, target, left, right) ==
  LET mid == (left + right) \div 2
      mid_value == key_func(At(arr, mid))
  IN IF mid_value = target
     THEN [done |-> TRUE, mid |-> left, left |-> left, right |-> right]
     ELSE IF mid_value < target
          THEN [done |-> FALSE, mid |-> mid, left |-> mid + 1, right |-> right]
          ELSE [done |-> FALSE, mid |-> mid, left |-> left, right |-> mid - 1]

binary_step(arr, target, left, right) ==
  LET mid == (left + right) \div 2
      mid_value == key_func(At(arr, mid))
  IN IF mid_value = target
     THEN [done |-> TRUE, mid |-> mid, left |-> left, right |-> right]
     ELSE IF mid_value < target
          THEN [done |-> FALSE, mid |-> mid, left |-> mid + 1, right |-> right]
          ELSE [done |-> FALSE, mid |-> mid, left |-> left, right |-> mid - 1]

RECURSIVE binary_loop(_, _, _, _, _)
binary_loop(arr, target, left, right, comparisons) ==
  IF left <= right
  THEN LET s == binary_step(arr, target, left, right)
       IN IF s.done
          THEN [index |-> s.mid, comparisons |-> comparisons + 1]
          ELSE binary_loop(arr, target, s.left, s.right, comparisons + 1)
  ELSE [index |-> -1, comparisons |-> comparisons]

binary_search(arr, target) == binary_loop(arr, target, 0, Len(arr) - 1, 0)

\* ------------------------------------------------------------ nx.Graph
\* Node ids are strings.  The graph keeps nodes and each node's neighbours
\* in insertion order, which is the order graph.nodes() and
\* graph.neighbors(n) iterate in.
None == "None"

Truthy(x) == x # None /\ x # ""

SeqToSet(q) == {q[i] : i \in 1..Len(q)}

EmptyGraph ==
  [node_order |-> <<>>, node |-> <<>>, adj |-> <<>>, edge |-> <<>>]

GraphNodes(G) == SeqToSet(G.node_order)

add_node(G, n, attrs) ==
  IF n \in GraphNodes(G)
  THEN [G EXCEPT !.node[n] = attrs]
  ELSE [G EXCEPT !.node_order = Append(@, n),
                 !.node = (n :> attrs) @@ @,
                 !.adj = (n :> <<>>) @@ @]

NoAttrs == [none |-> TRUE]

\* graph.add_edge(u, v, **attrs): both endpoints become nodes, the edge is
\* entered in the adjacency of each
add_edge_oneway(G, u, v, attrs) ==
  LET G1 == IF u \in GraphNodes(G) THEN G ELSE add_node(G, u, NoAttrs)
      G2 == IF v \in GraphNodes(G1) THEN G1 ELSE add_node(G1, v, NoAttrs)
  IN [G2 EXCEPT !.adj = [@ EXCEPT ![u] = Append(@, v)],
                !.edge = (<<u, v>> :> attrs) @@ @]

add_edge(G, u, v, attrs) ==
  LET G1 == IF u \in GraphNodes(G) THEN G ELSE add_node(G, u, NoAttrs)
      G2 == IF v \in GraphNodes(G1) THEN G1 ELSE add_node(G1, v, NoAttrs)
  IN IF <<u, v>> \in DOMAIN G2.edge
     THEN [G2 EXCEPT !.edge = (<<u, v>> :> attrs) @@ (<<v, u>> :> attrs) @@ @]
     ELSE [G2 EXCEPT
             !.adj = IF u = v
                     THEN [@ EXCEPT ![u] = Append(@, v)]
                     ELSE [@ EXCEPT ![u] = Append(@, v), ![v] = Append(@, u)],
             !.edge = (<<u, v>> :> attrs) @@ (<<v, u>> :> attrs) @@ @]

\* for node_id, attrs in nodes.items(): add_node
RECURSIVE add_nodes_from(_, _, _)
add_nodes_from(G, ns, i) ==
  IF i > Len(ns) THEN G
  ELSE add_nodes_from(add_node(G, ns[i][1], ns[i][2]), ns, i + 1)

\* for source, target, attrs in edges: add_edge
RECURSIVE add_edges_from(_, _, _)
add_edges_from(G, es, i) ==
  IF i > Len(es) THEN G
  ELSE add_edges_from(add_edge(G, es[i][1], es[i][2], es[i][3]), es, i + 1)

\* distances are kept in tenths of a km (1.5 km = 15)
nodes ==
  << <<"solar1",   [type |-> "solar",      capacity |-> 100, pos |-> <<0, 2>>]>>,
     <<"wind1",    [type |-> "wind",       capacity |-> 150, pos |-> <<2, 2>>]>>,
     <<"hydro1",   [type |-> "hydro",      capacity |-> 200, pos |-> <<1, 3>>]>>,
     <<"sub1",     [type |-> "substation", capacity |-> 300, pos |-> <<1, 1>>]>>,
     <<"sub2",     [type |-> "substation", capacity |-> 250, pos |-> <<3, 1>>]>>,
     <<"city1",    [type |-> "consumer",   demand |-> 180,   pos |-> <<0, 0>>]>>,
     <<"city2",    [type |-> "consumer",   demand |-> 220,   pos |-> <<2, 0>>]>>,
     <<"factory1", [type |-> "consumer",   demand |-> 150,   pos |-> <<4, 0>>]>> >>

edges_swapped ==
  LET es == << <<"solar1", "sub1",     [capacity |-> 100, distance |-> 15]>>,
               <<"wind1",  "sub2",     [capacity |-> 150, distance |-> 12]>>,
               <<"hydro1", "sub1",     [capacity |-> 200, distance |-> 18]>>,
               <<"hydro1", "sub2",     [capacity |-> 200, distance |-> 20]>>,
               <<"sub1",   "city1",    [capacity |-> 180, distance |-> 10]>>,
               <<"sub1",   "city2",    [capacity |-> 220, distance |-> 25]>>,
               <<"sub2",   "city2",    [capacity |-> 220, distance |-> 11]>>,
               <<"sub2",   "factory1", [capacity |-> 150, distance |-> 13]>>,
               <<"sub1",   "sub2",     [capacity |-> 100, distance |-> 20]>> >>
  IN es

edges ==
  << <<"solar1", "sub1",     [capacity |-> 100, distance |-> 15]>>,
     <<"wind1",  "sub2",     [capacity |-> 150, distance |-> 12]>>,
     <<"hydro1", "sub1",     [capacity |-> 200, distance |-> 20]>>,
     <<"hydro1", "sub2",     [capacity |-> 200, distance |-> 18]>>,
     <<"sub1",   "city1",    [capacity |-> 180, distance |-> 10]>>,
     <<"sub1",   "city2",    [capacity |-> 220, distance |-> 25]>>,
     <<"sub2",   "city2",    [capacity |-> 220, distance |-> 11]>>,
     <<"sub2",   "factory1", [capacity |-> 150, distance |-> 13]>>,
     <<"sub1",   "sub2",     [capacity |-> 100, distance |-> 20]>> >>

\* SmartGridDataStructures().grid_graph
initialize_data == add_edges_from(add_nodes_from(EmptyGraph, nodes, 1), edges, 1)

neighbors(G, n) == G.adj[n]

\* Other graphs a caller may hand to dfs/bfs: the first MaxNodes names,
\* joined by at most MaxEdges edges added in a fixed order.
NodeNames == [i \in 1..Len(nodes) |-> nodes[i][1]]

SmallNodes == 1..(IF MaxNodes < Len(NodeNames) THEN MaxNodes ELSE Len(NodeNames))

AllPairs == {p \in SmallNodes \X SmallNodes : p[1] < p[2]}

\* the pairs of E as a sequence, ordered by first then second endpoint
RECURSIVE PairSeq(_)
PairSeq(E) ==
  IF E = {} THEN <<>>
  ELSE LET p == CHOOSE x \in E :
                  \A y \in E : x[1] < y[1] \/ (x[1] = y[1] /\ x[2] <= y[2])
       IN <<p>> \o PairSeq(E \ {p})

UnitAttrs == [capacity |-> 1, distance |-> 1]

SmallGraph(E) ==
  LET ns == [i \in SmallNodes |-> <<NodeNames[i], NoAttrs>>]
      ps == PairSeq(E)
      es == [i \in 1..Len(ps) |->
               <<NodeNames[ps[i][1]], NodeNames[ps[i][2]], UnitAttrs>>]
  IN add_edges_from(add_nodes_from(EmptyGraph, ns, 1), es, 1)

SmallGraphs(m) ==
  {SmallGraph(E) : E \in {X \in SUBSET AllPairs : Cardinality(X) <= m}}

\* Node ids are any hashable value: the same graphs with the empty string as
\* the id of the first node.  dfs and bfs look at an id only to compare it
\* and to test the target's truth value, so these graphs stand for the ones
\* above whenever the target is another node.
BlankNames == [NodeNames EXCEPT ![1] = ""]

BlankGraph(E) ==
  LET ns == [i \in SmallNodes |-> <<BlankNames[i], NoAttrs>>]
      ps == PairSeq(E)
      es == [i \in 1..Len(ps) |->
               <<BlankNames[ps[i][1]], BlankNames[ps[i][2]], UnitAttrs>>]
  IN add_edges_from(add_nodes_from(EmptyGraph, ns, 1), es, 1)

BlankGraphs(m) ==
  {BlankGraph(E) : E \in {X \in SUBSET AllPairs : Cardinality(X) <= m}}

\* ------------------------------------------------------------- dfs / bfs
Reverse(q) == [i \in 1..Len(q) |-> q[Len(q) + 1 - i]]

\* the neighbours not yet visited, in listing order
RECURSIVE Unvisited(_, _)
Unvisited(ns, visited) ==
  IF ns = <<>> THEN <<>>
  ELSE (IF Head(ns) \in visited THEN <<>> ELSE <<Head(ns)>>)
         \o Unvisited(Tail(ns), visited)

\* for neighbor in reversed(neighbors): if neighbor not in visited: stack.append
dfs_push_first(stack, ns, visited) ==
  LET u == Unvisited(ns, visited)
  IN IF u = <<>> THEN stack ELSE Append(stack, Head(u))

dfs_push_unreversed(stack, ns, visited) == stack \o Unvisited(ns, visited)

dfs_push(stack, ns, visited) == stack \o Unvisited(Reverse(ns), visited)

\* for neighbor in graph.neighbors(node): if neighbor not in visited: queue.append
bfs_push_first(queue, ns, visited) ==
  LET u == Unvisited(ns, visited)
  IN IF u = <<>> THEN queue ELSE Append(queue, Head(u))

bfs_push(queue, ns, visited) == queue \o Unvisited(ns, visited)

Idle == [pc |-> "idle"]

NoResult == [status |-> "none"]

min_greater(x, y) == IF x <= y THEN y ELSE x

min(x, y) == IF x <= y THEN x ELSE y

NewFrame(fn, start, target) ==
  [pc |-> "loop", fn |-> fn, start |-> start, target |-> target,
   visited |-> {}, path |-> <<>>, frontier |-> <<start>>]

Returned(path) == [status |-> "returned", path |-> path, count |-> Len(path)]

Raised(exc) == [status |-> "raised", exc |-> exc]

\* visited = set(); path = []; stack = [start] / queue = deque([start])
Call(fn) ==
  /\ frame.pc # "loop"
  /\ rets[fn] = NoResult
  /\ frame' = NewFrame(fn, args.start, args.target)
  /\ UNCHANGED <<grid_graph, args, rets, notTraversal>>

\* visited.add(node)
visited_add_none(visited, node) == visited

visited_add(visited, node) == visited \cup {node}

\* one iteration of `while stack:` / `while queue:`
Visit(node, rest) ==
  LET visited1 == visited_add(frame.visited, node)
      path1 == Append(frame.path, node)
  IN IF node \in frame.visited
     THEN /\ frame' = [frame EXCEPT !.frontier = rest]
          /\ rets' = rets
     ELSE IF Truthy(frame.target) /\ node = frame.target
     THEN /\ frame' = [frame EXCEPT !.frontier = rest, !.visited = visited1,
                                    !.path = path1, !.pc = "done"]
          /\ rets' = [rets EXCEPT ![frame.fn] = Returned(path1)]
     ELSE IF node \notin GraphNodes(grid_graph)
     THEN \* graph.neighbors raises NetworkXError for a node not in the graph
          /\ frame' = [frame EXCEPT !.frontier = rest, !.visited = visited1,
                                    !.path = path1, !.pc = "raised"]
          /\ rets' = [rets EXCEPT ![frame.fn] = Raised("NetworkXError")]
     ELSE /\ frame' = [frame EXCEPT
                         !.visited = visited1,
                         !.path = path1,
                         !.frontier =
                            IF frame.fn = "dfs"
                            THEN dfs_push(rest, neighbors(grid_graph, node), visited1)
                            ELSE bfs_push(rest, neighbors(grid_graph, node), visited1)]
          /\ rets' = rets

\* list.pop(): the last item, and the list without it
pop_peek(stack) == [item |-> stack[Len(stack)], rest |-> stack]

pop(stack) ==
  [item |-> stack[Len(stack)], rest |-> SubSeq(stack, 1, Len(stack) - 1)]

\* deque.popleft(): the first item, and the deque without it
popleft_newest(queue) ==
  [item |-> queue[Len(queue)], rest |-> SubSeq(queue, 1, Len(queue) - 1)]

popleft(queue) == [item |-> Head(queue), rest |-> Tail(queue)]

\* node = stack.pop()
DfsStep ==
  /\ frame.pc = "loop" /\ frame.fn = "dfs" /\ frame.frontier # <<>>
  /\ Visit(pop(frame.frontier).item, pop(frame.frontier).rest)
  /\ UNCHANGED <<grid_graph, args, notTraversal>>

\* node = queue.popleft()
BfsStep ==
  /\ frame.pc = "loop" /\ frame.fn = "bfs" /\ frame.frontier # <<>>
  /\ Visit(popleft(frame.frontier).item, popleft(frame.frontier).rest)
  /\ UNCHANGED <<grid_graph, args, notTraversal>>

\* the frontier is empty: return path, len(path)
Return ==
  /\ frame.pc = "loop" /\ frame.frontier = <<>>
  /\ frame' = [frame EXCEPT !.pc = "done"]
  /\ rets' = [rets EXCEPT ![frame.fn] = Returned(frame.path)]
  /\ UNCHANGED <<grid_graph, args, notTraversal>>

\* ---------------------------------------------------------- nx.shortest_path
\* Dijkstra's method as networkx runs it for weight='distance': `dist` holds
\* final distances, `seen` tentative ones, `fringe` the heap of
\* (distance, push count, node) and `paths` the path found to each node.
\* D = [dist, seen, fringe, c, paths]
EntryLess(x, y) == x[1] < y[1] \/ (x[1] = y[1] /\ x[2] < y[2])

\* heappop: the least entry, by distance and then by push count
heappop_oldest(fringe) == CHOOSE x \in fringe : \A y \in fringe : x[2] <= y[2]

heappop(fringe) == CHOOSE x \in fringe : \A y \in fringe : x = y \/ EntryLess(x, y)

\* the relaxation of edge v-u
relax(G, D, v, u) ==
  LET vu_dist == D.dist[v] + G.edge[<<v, u>>].distance
  IN IF u \in DOMAIN D.dist
     THEN D
     ELSE IF u \notin DOMAIN D.seen \/ vu_dist < D.seen[u]
     THEN [D EXCEPT !.seen = (u :> vu_dist) @@ @,
                    !.fringe = @ \cup {<<vu_dist, D.c, u>>},
                    !.c = @ + 1,
                    !.paths = (u :> Append(D.paths[v], u)) @@ @]
     ELSE D

\* for u, e in G_succ[v].items()
RECURSIVE relax_all(_, _, _, _, _)
relax_all(G, D, v, ns, i) ==
  IF i > Len(ns) THEN D
  ELSE relax_all(G, relax(G, D, v, ns[i]), v, ns, i + 1)

\* while fringe
RECURSIVE dijkstra_loop(_, _, _)
dijkstra_loop(G, D, target) ==
  IF D.fringe = {} THEN D
  ELSE LET e == heappop(D.fringe)
           d == e[1]
           v == e[3]
           D1 == [D EXCEPT !.fringe = @ \ {e}]
       IN IF v \in DOMAIN D1.dist THEN dijkstra_loop(G, D1, target)
          ELSE LET D2 == [D1 EXCEPT !.dist = (v :> d) @@ @]
               IN IF v = target THEN D2
                  ELSE dijkstra_loop(G, relax_all(G, D2, v, neighbors(G, v), 1),
                                     target)

dijkstra(G, source, target) ==
  dijkstra_loop(G, [dist |-> <<>>, seen |-> (source :> 0),
                    fringe |-> {<<0, 0, source>>}, c |-> 1,
                    paths |-> (source :> <<source>>)],
                target)

\* as shortest_path, but a target never reached counts as reached at once
shortest_path_unreached(G, source, target) ==
  IF source \notin GraphNodes(G) \/ target \notin GraphNodes(G)
  THEN Raised("NodeNotFound")
  ELSE LET D == dijkstra(G, source, target)
       IN [status |-> "found",
           path |-> IF target \in DOMAIN D.dist THEN D.paths[target]
                    ELSE <<source, target>>,
           total_distance |-> IF target \in DOMAIN D.dist THEN D.dist[target]
                              ELSE 0]

\* path = nx.shortest_path(...); total_distance = nx.shortest_path_length(...)
shortest_path(G, source, target) ==
  IF source \notin GraphNodes(G) \/ target \notin GraphNodes(G)
  THEN Raised("NodeNotFound")
  ELSE LET D == dijkstra(G, source, target)
       IN IF target \in DOMAIN D.dist
          THEN [status |-> "found", path |-> D.paths[target],
                total_distance |-> D.dist[target]]
          ELSE [status |-> "no_path"]   \* except nx.NetworkXNoPath: st.error

\* the "compute best route" button
ShortestPath ==
  /\ route = NoResult
  /\ route' = shortest_path(grid_graph, sel.source, sel.target)
  /\ UNCHANGED <<grid_graph, sel, notPaths>>

\* graphs as above with each edge MaxWeight - 1 or MaxWeight long
WeightedGraph(E, w) ==
  LET ns == [i \in SmallNodes |-> <<NodeNames[i], NoAttrs>>]
      ps == PairSeq(E)
      es == [i \in 1..Len(ps) |->
               <<NodeNames[ps[i][1]], NodeNames[ps[i][2]],
                 [capacity |-> 1, distance |-> w[ps[i]]]>>]
  IN add_edges_from(add_nodes_from(EmptyGraph, ns, 1), es, 1)

WeightedGraphs(m) ==
  UNION {{WeightedGraph(E, w) : w \in [E -> {MaxWeight - 1, MaxWeight}]} :
           E \in {X \in SUBSET AllPairs : Cardinality(X) <= m}}

\* the two select boxes: generation nodes, consumer nodes
NodesOfType(G, types) ==
  {n \in GraphNodes(G) : "type" \in DOMAIN G.node[n] /\ G.node[n].type \in types}

\* ------------------------------------------------------ nx.all_simple_paths
\* The depth-first generator networkx runs for one target: `visited` is the
\* path so far, the children of its last node are taken in adjacency order.
\* len(visited) < cutoff: if child in targets: yield list(visited) + [child]
yield_below_never(visited, child, target) == <<>>

yield_below(visited, child, target) ==
  IF child = target THEN <<Append(visited, child)>> ELSE <<>>

\* len(visited) == cutoff: the target closes the path if it is a child
yield_at_cutoff_never(visited, child, target) == <<>>

yield_at_cutoff(visited, child, target) ==
  IF child = target THEN <<Append(visited, child)>> ELSE <<>>

\* what the generator yields below `visited` from the children still to take
RECURSIVE paths_below(_, _, _, _, _)
paths_below(G, visited, children, target, cutoff) ==
  IF children = <<>> THEN <<>>
  ELSE LET child == Head(children)
           here == IF child \in SeqToSet(visited) THEN <<>>
                   ELSE IF Len(visited) < cutoff
                   THEN IF child = target
                        THEN yield_below(visited, child, target)
                        ELSE paths_below(G, Append(visited, child),
                                         neighbors(G, child), target, cutoff)
                   ELSE yield_at_cutoff(visited, child, target)
       IN here \o paths_below(G, visited, Tail(children), target, cutoff)

\* list(nx.all_simple_paths(graph, source, target, cutoff=max_length)) for
\* two different nodes of the graph, as the select boxes offer them
all_simple_paths(G, source, target, cutoff) ==
  IF cutoff < 1 THEN <<>>
  ELSE paths_below(G, <<source>>, neighbors(G, source), target, cutoff)

\* sum(graph[path[j]][path[j+1]]['distance'] for j in range(len(path)-1))
RECURSIVE path_length(_, _, _)
path_length(G, path, j) ==
  IF j >= Len(path) - 1 THEN 0
  ELSE G.edge[<<At(path, j), At(path, j + 1)>>].distance
         + path_length(G, path, j + 1)

\* the lines written under the count: every path, or the first 10 of them
written(G, paths) ==
  [i \in 1..min(Len(paths), 10) |->
     [path |-> paths[i], path_length |-> path_length(G, paths[i], 0)]]

\* the "count paths" button
CountPaths ==
  /\ count.source # None
  /\ LET paths == all_simple_paths(grid_graph, count.source, count.target,
                                   count.max_length)
     IN all_paths' = [status |-> "listed", max_length |-> count.max_length,
                      paths |-> paths, count |-> Len(paths),
                      written |-> written(grid_graph, paths)]
  /\ earlier' = all_paths
  /\ UNCHANGED <<grid_graph, count, notCount>>

\* the slider's range: 2..6 on the page, 0..MaxCutoff for other graphs
Cutoffs(G) == IF G = initialize_data THEN 2..6 ELSE 0..MaxCutoff

\* the max_length slider moved up by one
RaiseMaxLength ==
  /\ count.source # None
  /\ count.max_length + 1 \in Cutoffs(grid_graph)
  /\ count' = [count EXCEPT !.max_length = @ + 1]
  /\ UNCHANGED <<grid_graph, all_paths, earlier, notCount>>

\* ---------------------------------------------------------- greedy plan
\* A source is [name, capacity, cost_per_mw, efficiency]; efficiency is
\* kept in percent (0.85 = 85).
reference_sources ==
  << [name |-> "solar1", capacity |-> 100, cost_per_mw |-> 50, efficiency |-> 85],
     [name |-> "wind1",  capacity |-> 150, cost_per_mw |-> 45, efficiency |-> 80],
     [name |-> "hydro1", capacity |-> 200, cost_per_mw |-> 35, efficiency |-> 90] >>

\* key=lambda x: x[1]['cost_per_mw'] / x[1]['efficiency'], compared without
\* dividing: c1/e1 <= c2/e2 iff c1*e2 <= c2*e1 for efficiencies above 0
ratio_le_strict(x, y) == x.cost_per_mw * y.efficiency < y.cost_per_mw * x.efficiency

ratio_le(x, y) == x.cost_per_mw * y.efficiency <= y.cost_per_mw * x.efficiency

\* sorted(): ascending, items with equal keys keep their order
RECURSIVE insert_sorted(_, _)
insert_sorted(out, x) ==
  IF out = <<>> THEN <<x>>
  ELSE LET last == out[Len(out)]
       IN IF ratio_le(last, x) THEN Append(out, x)
          ELSE Append(insert_sorted(SubSeq(out, 1, Len(out) - 1), x), last)

RECURSIVE sorted_from(_, _, _)
sorted_from(out, items, i) ==
  IF i > Len(items) THEN out
  ELSE sorted_from(insert_sorted(out, items[i]), items, i + 1)

sorted_unsorted(items) == items

sorted(items) == sorted_from(<<>>, items, 1)

\* needed = min(demand - total_generated, source_data['capacity'])
needed_uncapped(d, total_generated, capacity) == d - total_generated

needed(d, total_generated, capacity) == min(d - total_generated, capacity)

\* the button handler: sort, then total_cost = total_generated = 0, plan = {}
StartPlan ==
  /\ solver.pc = "idle"
  /\ solver' = [pc |-> "loop", sorted_sources |-> sorted(power_sources), i |-> 1,
                total_cost |-> 0, total_generated |-> 0,
                generation_plan |-> <<>>]
  /\ UNCHANGED <<power_sources, demand, notGreedy>>

\* one iteration of `for source_name, source_data in sorted_sources`
PlanStep ==
  /\ solver.pc = "loop"
  /\ solver.i <= Len(solver.sorted_sources)
  /\ LET src == solver.sorted_sources[solver.i]
         n == needed(demand, solver.total_generated, src.capacity)
     IN IF solver.total_generated >= demand
        THEN solver' = [solver EXCEPT !.pc = "report"]
        ELSE IF n > 0
        THEN solver' = [solver EXCEPT
                          !.generation_plan = (src.name :> n) @@ @,
                          !.total_generated = @ + n,
                          !.total_cost = @ + n * src.cost_per_mw,
                          !.i = @ + 1]
        ELSE solver' = [solver EXCEPT !.i = @ + 1]
  /\ UNCHANGED <<power_sources, demand, notGreedy>>

\* the sources are exhausted
PlanExhausted ==
  /\ solver.pc = "loop"
  /\ solver.i > Len(solver.sorted_sources)
  /\ solver' = [solver EXCEPT !.pc = "report"]
  /\ UNCHANGED <<power_sources, demand, notGreedy>>

\* st.success / st.info, then "demand met" or the shortfall
Report ==
  /\ solver.pc = "report"
  /\ solver' = [pc |-> "done",
                shown |-> IF solver.total_generated >= demand
                          THEN [met |-> TRUE]
                          ELSE [met |-> FALSE,
                                shortfall |-> demand - solver.total_generated]]
               @@ solver
  /\ UNCHANGED <<power_sources, demand, notGreedy>>

SourceNames == [i \in 1..Len(nodes) |-> nodes[i][1]]

\* efficiencies whose quotients Python computes exactly
Efficiencies == {50, 100}

SmallSourceLists ==
  UNION {[1..n -> [capacity : 0..MaxCap, cost_per_mw : 1..MaxCost,
                   efficiency : Efficiencies]] : n \in 0..MaxSources}

NameSources(q) ==
  [i \in 1..Len(q) |-> [name |-> SourceNames[i], capacity |-> q[i].capacity,
                        cost_per_mw |-> q[i].cost_per_mw,
                        efficiency |-> q[i].efficiency]]

\* st.slider("...", 100, 400, 250), in steps of 50 MW
SliderDemands == {100 + 50 * k : k \in 0..6}

\* ------------------------------------------------------------- pages
NoRet == [op |-> "none"]

\* the other pages, not yet used
IdleLists == heap = <<>> /\ ret = NoRet

IdleTraversal ==
  /\ args = [start |-> None, target |-> None]
  /\ frame = Idle
  /\ rets = [fn \in {"dfs", "bfs"} |-> NoResult]

IdlePaths ==
  /\ sel = [source |-> None, target |-> None]
  /\ route = NoResult

IdleGreedy ==
  /\ power_sources = reference_sources
  /\ demand = 250
  /\ solver = [pc |-> "idle"]

IdleCount ==
  /\ count = [source |-> None, target |-> None, max_length |-> 4]
  /\ all_paths = NoResult
  /\ earlier = NoResult

\* SmartGridDataStructures.__init__: deque(), []
IdleSession == power_queue = <<>> /\ history_stack = <<>>

InitLists ==
  /\ \E ks \in KeySeqs : heap = <<MakePlants(ks)>>
  /\ ret = NoRet
  /\ grid_graph = initialize_data
  /\ IdleTraversal
  /\ IdleGreedy
  /\ IdlePaths
  /\ IdleCount
  /\ IdleSession

\* A call starts from the caller's list alone: the list a previous call
\* returned is no longer referenced.
SortRet(name, given, r) ==
  [op |-> name, given |-> given, ref |-> r.ref,
   comparisons |-> r.comparisons, swaps |-> r.swaps]

BubbleSort ==
  LET r == bubble_sort(<<heap[1]>>, 1)
  IN /\ heap' = r.heap
     /\ ret' = SortRet("bubble_sort", heap[1], r)
     /\ UNCHANGED notLists

QuickSort ==
  LET r == quick_sort(<<heap[1]>>, 1)
  IN /\ heap' = r.heap
     /\ ret' = SortRet("quick_sort", heap[1], r)
     /\ UNCHANGED notLists

SearchRet(name, given, target, r) ==
  [op |-> name, given |-> given, target |-> target,
   index |-> r.index, comparisons |-> r.comparisons]

LinearSearch ==
  \E target \in Targets :
    /\ ret' = SearchRet("linear_search", heap[1], target,
                        linear_search(heap[1], target))
    /\ heap' = <<heap[1]>>
    /\ UNCHANGED notLists

BinarySearch ==
  \E target \in Targets :
    /\ ret' = SearchRet("binary_search", heap[1], target,
                        binary_search(heap[1], target))
    /\ heap' = <<heap[1]>>
    /\ UNCHANGED notLists

NextLists == BubbleSort \/ QuickSort \/ LinearSearch \/ BinarySearch

SpecLists == InitLists /\ [][NextLists]_vars

\* ----------------------------------------------------- traversal page
Starts == SeqToSet(SubSeq(NodeNames, 1, Cardinality(SmallNodes) + 1))

BlankStarts == SeqToSet(SubSeq(BlankNames, 1, Cardinality(SmallNodes) + 1))

\* the node ids start and target are chosen among
Choices(G) ==
  IF G = initialize_data THEN SeqToSet(NodeNames)
  ELSE IF "" \in GraphNodes(G) THEN BlankStarts
  ELSE Starts

InitTraversal ==
  /\ grid_graph \in BlankGraphs(MaxEdges) \cup {initialize_data}
  /\ args \in [start : Choices(grid_graph),
               target : {None} \cup Choices(grid_graph)]
  /\ frame = Idle
  /\ rets = [fn \in {"dfs", "bfs"} |-> NoResult]
  /\ IdleLists
  /\ IdleGreedy
  /\ IdlePaths
  /\ IdleCount
  /\ IdleSession

NextTraversal == Call("dfs") \/ Call("bfs") \/ DfsStep \/ BfsStep \/ Return

SpecTraversal == InitTraversal /\ [][NextTraversal]_vars

\* A call that has begun runs on: the interpreter executes the next
\* iteration of the while loop, and the return that follows it.  Whether a
\* call is made at all is left to the caller.
\* The calls are those with a start node of the graph.
InitTraversalFair ==
  /\ grid_graph \in BlankGraphs(MaxEdges - 1) \cup {initialize_data}
  /\ args \in [start : GraphNodes(grid_graph),
               target : {None} \cup Choices(grid_graph)]
  /\ frame = Idle
  /\ rets = [fn \in {"dfs", "bfs"} |-> NoResult]
  /\ IdleLists
  /\ IdleGreedy
  /\ IdlePaths
  /\ IdleCount
  /\ IdleSession

SpecTraversalFair ==
  /\ InitTraversalFair
  /\ [][NextTraversal]_vars
  /\ WF_vars(DfsStep)
  /\ WF_vars(BfsStep)
  /\ WF_vars(Return)

InitGreedy ==
  /\ \/ /\ power_sources \in {NameSources(q) : q \in SmallSourceLists}
        /\ demand \in 0..MaxDemand
     \/ /\ power_sources = reference_sources
        /\ demand \in SliderDemands
  /\ solver = [pc |-> "idle"]
  /\ grid_graph = initialize_data
  /\ IdleLists
  /\ IdleTraversal
  /\ IdlePaths
  /\ IdleCount
  /\ IdleSession

NextGreedy == StartPlan \/ PlanStep \/ PlanExhausted \/ Report

SpecGreedy == InitGreedy /\ [][NextGreedy]_vars

InitPaths ==
  /\ grid_graph \in WeightedGraphs(MaxEdges) \cup {initialize_data}
  /\ IF grid_graph = initialize_data
     THEN sel \in [source : NodesOfType(grid_graph, {"solar", "wind", "hydro"}),
                   target : NodesOfType(grid_graph, {"consumer"})]
     ELSE sel \in [source : Starts, target : Starts]
  /\ route = NoResult
  /\ IdleLists
  /\ IdleTraversal
  /\ IdleGreedy
  /\ IdleCount
  /\ IdleSession

NextPaths == ShortestPath

SpecPaths == InitPaths /\ [][NextPaths]_vars

\* ----------------------------------------------------- path-count tab
InitCount ==
  /\ grid_graph \in SmallGraphs(MaxEdges) \cup {initialize_data}
  /\ IF grid_graph = initialize_data
     THEN count \in [source : NodesOfType(grid_graph, {"solar", "wind", "hydro"}),
                     target : NodesOfType(grid_graph, {"consumer"}),
                     max_length : Cutoffs(grid_graph)]
     ELSE count \in {c \in [source : GraphNodes(grid_graph),
                             target : GraphNodes(grid_graph),
                             max_length : Cutoffs(grid_graph)] :
                       c.source # c.target}
  /\ all_paths = NoResult
  /\ earlier = NoResult
  /\ IdleLists
  /\ IdleTraversal
  /\ IdleGreedy
  /\ IdlePaths
  /\ IdleSession

NextCount == CountPaths \/ RaiseMaxLength

SpecCount == InitCount /\ [][NextCount]_vars

\* ------------------------------------------------- data-structures page
\* f"{n:03d}": the decimal digits of n, padded with zeros to three places
RECURSIVE digits(_)
digits(n) == IF n < 10 THEN <<n>> ELSE Append(digits(n \div 10), n % 10)

format_03d(n) == [i \in 1..(3 - Len(digits(n))) |-> 0] \o digits(n)

label(prefix, n) == [prefix |-> prefix, number |-> format_03d(n)]

\* the object every page handler is given
grid_data ==
  [power_queue |-> power_queue, history_stack |-> history_stack,
   grid_graph |-> grid_graph]

\* request = f"REQ-{len(power_queue)+1:03d}"; power_queue.append(request)
add_request_as_node(data) ==
  [data EXCEPT !.grid_graph =
     add_node(@, label("REQ-", Len(data.power_queue) + 1).prefix, NoAttrs)]

add_request(data) ==
  [data EXCEPT !.power_queue = Append(@, label("REQ-", Len(@) + 1))]

\* if button and power_queue: power_queue.popleft()
process_request_newest(data) ==
  IF data.power_queue # <<>>
  THEN [data EXCEPT !.power_queue = pop(@).rest]
  ELSE data

process_request(data) ==
  IF data.power_queue # <<>>
  THEN [data EXCEPT !.power_queue = popleft(@).rest]
  ELSE data

\* action = f"ACTION-{len(history_stack)+1:03d}"; history_stack.append(action)
add_action(data) ==
  [data EXCEPT !.history_stack = Append(@, label("ACTION-", Len(@) + 1))]

\* if button and history_stack: history_stack.pop()
cancel_action(data) ==
  IF data.history_stack # <<>>
  THEN [data EXCEPT !.history_stack = pop(@).rest]
  ELSE data

\* the object after a handler has run on it
Store(data) ==
  /\ power_queue' = data.power_queue
  /\ history_stack' = data.history_stack
  /\ grid_graph' = data.grid_graph

\* A script run shows one page: what another page computed and the values
\* picked on it are gone.
Quiet == frame.pc # "loop" /\ solver.pc \in {"idle", "done"}

AllIdle == IdleTraversal /\ IdleGreedy /\ IdlePaths /\ IdleCount

notSession == <<listVars, travVars, greedyVars, pathVars, countVars>>

\* the menu moved away from a page
ClosePage ==
  /\ Quiet
  /\ ~AllIdle
  /\ args' = [start |-> None, target |-> None]
  /\ frame' = Idle
  /\ rets' = [fn \in {"dfs", "bfs"} |-> NoResult]
  /\ power_sources' = reference_sources
  /\ demand' = 250
  /\ solver' = [pc |-> "idle"]
  /\ sel' = [source |-> None, target |-> None]
  /\ route' = NoResult
  /\ count' = [source |-> None, target |-> None, max_length |-> 4]
  /\ all_paths' = NoResult
  /\ earlier' = NoResult
  /\ UNCHANGED <<grid_graph, listVars, sessionVars>>

AddRequest ==
  /\ AllIdle
  /\ Len(power_queue) < MaxQueue
  /\ Store(add_request(grid_data))
  /\ UNCHANGED notSession

Dequeue ==
  /\ AllIdle
  /\ Store(process_request(grid_data))
  /\ UNCHANGED notSession

PushHistory ==
  /\ AllIdle
  /\ Len(history_stack) < MaxStack
  /\ Store(add_action(grid_data))
  /\ UNCHANGED notSession

PopHistory ==
  /\ AllIdle
  /\ Store(cancel_action(grid_data))
  /\ UNCHANGED notSession

\* ------------------------------------------------------------- session
\* main(): the menu picks the page, the page's widgets pick the inputs
OpenTraversal ==
  /\ AllIdle
  /\ args' \in [start : GraphNodes(grid_graph), target : GraphNodes(grid_graph)]
  /\ UNCHANGED <<grid_graph, frame, rets, notTraversal>>

OpenPaths ==
  /\ AllIdle
  /\ sel' \in [source : NodesOfType(grid_graph, {"solar", "wind", "hydro"}),
                target : NodesOfType(grid_graph, {"consumer"})]
  /\ UNCHANGED <<grid_graph, route, notPaths>>

OpenCount ==
  /\ AllIdle
  /\ count' \in [source : NodesOfType(grid_graph, {"solar", "wind", "hydro"}),
                  target : NodesOfType(grid_graph, {"consumer"}),
                  max_length : Cutoffs(grid_graph)]
  /\ UNCHANGED <<grid_graph, all_paths, earlier, notCount>>

OpenGreedy ==
  /\ AllIdle
  /\ demand' \in SliderDemands
  /\ UNCHANGED <<power_sources, solver, notGreedy>>

OnTraversal == args.start # None /\ NextTraversal

OnPaths == sel.source # None /\ NextPaths

OnCount == count.source # None /\ NextCount

OnGreedy == IdleTraversal /\ IdlePaths /\ IdleCount /\ NextGreedy

InitSession ==
  /\ grid_graph = initialize_data
  /\ IdleSession
  /\ IdleLists
  /\ IdleTraversal
  /\ IdleGreedy
  /\ IdlePaths
  /\ IdleCount

NextSession ==
  \/ AddRequest \/ Dequeue \/ PushHistory \/ PopHistory
  \/ ClosePage
  \/ OpenTraversal \/ OnTraversal
  \/ OpenPaths \/ OnPaths
  \/ OpenCount \/ OnCount
  \/ OpenGreedy \/ OnGreedy

SpecSession == InitSession /\ [][NextSession]_vars

\* ===================================================== sorting properties
Range(a) == {a[i] : i \in 1..Len(a)}

Count(a, x) == Cardinality({i \in 1..Len(a) : a[i] = x})

IsPermutation(a, b) ==
  /\ Len(a) = Len(b)
  /\ \A x \in Range(a) \cup Range(b) : Count(a, x) = Count(b, x)

NonDecreasing(a) ==
  \A i \in 1..(Len(a) - 1) : key_func(a[i]) <= key_func(a[i + 1])

Sorters == {"bubble_sort", "quick_sort"}

\* C1: whatever list and keys are passed, the list bubble_sort or
\* quick_sort returns holds the same items with the same multiplicities as
\* the input and is non-decreasing under the key.
C1_SortedPermutation ==
  ret.op \in Sorters =>
    /\ IsPermutation(heap[ret.ref], ret.given)
    /\ NonDecreasing(heap[ret.ref])

C1_Witness ==
  /\ ret.op = "quick_sort"
  /\ Len(ret.given) = MaxLen
  /\ ~NonDecreasing(ret.given)
  /\ \E i, j \in 1..Len(ret.given) :
       i # j /\ key_func(ret.given[i]) = key_func(ret.given[j])
  /\ heap[ret.ref] # ret.given

\* C8: a sorter leaves the caller's list as it was (same items, same order)
\* and returns a list object other than the one it was given.
C8_InputNotMutated ==
  ret.op \in Sorters =>
    /\ heap[1] = ret.given
    /\ ret.ref # 1

C8_Witness ==
  /\ ret.op = "bubble_sort"
  /\ ret.swaps > 0
  /\ heap[ret.ref] # heap[1]

\* position of an item in a list whose items are pairwise distinct
PosIn(a, x) == CHOOSE i \in 1..Len(a) : a[i] = x

\* C9: bubble_sort keeps items with equal keys in their input order.
C9_BubbleStable ==
  ret.op = "bubble_sort" =>
    LET out == heap[ret.ref]
    IN \A p, q \in 1..Len(out) :
         (p < q /\ key_func(out[p]) = key_func(out[q]))
           => PosIn(ret.given, out[p]) < PosIn(ret.given, out[q])

C9_Witness ==
  /\ ret.op = "bubble_sort"
  /\ ret.swaps >= 2
  /\ \E i, j \in 1..Len(ret.given) :
       /\ i < j
       /\ key_func(ret.given[i]) = key_func(ret.given[j])
       /\ \E k \in (j + 1)..Len(ret.given) :
            key_func(ret.given[k]) < key_func(ret.given[i])

\* ==================================================== searching properties
Matches(a, target) == {i \in 0..(Len(a) - 1) : key_func(At(a, i)) = target}

Min(S) == CHOOSE x \in S : \A y \in S : x <= y

\* C2: on a list sorted ascending by key, binary_search returns an index
\* whose item has the target key when some item has it, and -1 when none
\* has.
C2_BinarySearchSorted ==
  (ret.op = "binary_search" /\ NonDecreasing(ret.given)) =>
    IF Matches(ret.given, ret.target) # {}
    THEN ret.index \in Matches(ret.given, ret.target)
    ELSE ret.index = -1

C2_Witness ==
  /\ ret.op = "binary_search"
  /\ NonDecreasing(ret.given)
  /\ Len(ret.given) = MaxLen
  /\ ret.index >= 2
  /\ ret.comparisons >= 2

\* C10: linear_search returns the smallest matching index i after i + 1
\* comparisons, or -1 after as many comparisons as the list has items.
C10_LinearSearchFirstMatch ==
  ret.op = "linear_search" =>
    IF Matches(ret.given, ret.target) # {}
    THEN /\ ret.index = Min(Matches(ret.given, ret.target))
         /\ ret.comparisons = ret.index + 1
    ELSE /\ ret.index = -1
         /\ ret.comparisons = Len(ret.given)

C10_Witness ==
  /\ ret.op = "linear_search"
  /\ ret.index >= 1
  /\ Cardinality(Matches(ret.given, ret.target)) >= 2

\* =================================================== traversal properties
\* nodes joined to s by a path of edges (s itself included)
RECURSIVE Closure(_, _)
Closure(G, S) ==
  LET T == S \cup {m \in GraphNodes(G) : \E n \in S : <<n, m>> \in DOMAIN G.edge}
  IN IF T = S THEN S ELSE Closure(G, T)

Reachable(G, s) == Closure(G, {s})

\* C3: run without a target from a node of the graph, dfs and bfs each
\* return a visited order whose set of nodes is the set of nodes reachable
\* from start, hence the two sets are equal.
C3_TraversalReachesComponent ==
  (args.target = None /\ args.start \in GraphNodes(grid_graph)) =>
    /\ \A fn \in {"dfs", "bfs"} :
         rets[fn] # NoResult =>
           /\ rets[fn].status = "returned"
           /\ SeqToSet(rets[fn].path) = Reachable(grid_graph, args.start)
    /\ (rets["dfs"] # NoResult /\ rets["bfs"] # NoResult) =>
         SeqToSet(rets["dfs"].path) = SeqToSet(rets["bfs"].path)

C3_Witness ==
  /\ args.target = None
  /\ grid_graph # initialize_data
  /\ rets["dfs"].status = "returned"
  /\ rets["bfs"].status = "returned"
  /\ rets["dfs"].path # rets["bfs"].path
  /\ Cardinality(Reachable(grid_graph, args.start)) >= 4

\* ================================================= greedy plan properties
RECURSIVE Sum(_, _)
Sum(f, S) ==
  IF S = {} THEN 0
  ELSE LET x == CHOOSE y \in S : TRUE IN f[x] + Sum(f, S \ {x})

TotalCapacity(srcs) ==
  Sum([i \in 1..Len(srcs) |-> srcs[i].capacity], 1..Len(srcs))

RECURSIVE Gcd(_, _)
Gcd(x, y) == IF y = 0 THEN x ELSE Gcd(y, x % y)

RECURSIVE GcdAll(_, _)
GcdAll(g, q) == IF q = <<>> THEN g ELSE GcdAll(Gcd(g, Head(q)), Tail(q))

\* Capacities and demand are whole multiples of Unit, so the least cost over
\* all real allocations is reached by one whose amounts are multiples of
\* Unit as well.
Unit(srcs, d) ==
  LET g == GcdAll(d, [i \in 1..Len(srcs) |-> srcs[i].capacity])
  IN IF g = 0 THEN 1 ELSE g

\* allocations with 0 <= a[i] <= capacity and sum equal to d
Allocations(srcs, d) ==
  LET u == Unit(srcs, d)
  IN {a \in [1..Len(srcs) -> {u * k : k \in 0..(d \div u)}] :
        /\ \A i \in 1..Len(srcs) : a[i] <= srcs[i].capacity
        /\ Sum(a, 1..Len(srcs)) = d}

AllocCost(srcs, a) ==
  Sum([i \in 1..Len(srcs) |-> a[i] * srcs[i].cost_per_mw], 1..Len(srcs))

IsMinCost(srcs, d, c) ==
  /\ \E a \in Allocations(srcs, d) : AllocCost(srcs, a) = c
  /\ \A a \in Allocations(srcs, d) : AllocCost(srcs, a) >= c

\* C4 as stated: whatever the sources, for a demand within total capacity
\* the plan's total_cost is the least cost of an allocation meeting demand.
C4_GreedyCostMinimalForAllSources ==
  (solver.pc = "done" /\ demand <= TotalCapacity(power_sources)) =>
    IsMinCost(power_sources, demand, solver.total_cost)

ratio_lt(x, y) == x.cost_per_mw * y.efficiency < y.cost_per_mw * x.efficiency

\* visiting the sources by ascending cost/efficiency, ties in input order,
\* never moves to a source with a lower cost per MW
VisitOrderIsCostOrder(srcs) ==
  \A i, j \in 1..Len(srcs) :
    (ratio_lt(srcs[i], srcs[j]) \/ (i < j /\ ~ratio_lt(srcs[j], srcs[i])))
      => srcs[i].cost_per_mw <= srcs[j].cost_per_mw

\* C4 amended: when the order by cost/efficiency is also an order by cost
\* per MW (as for the reference sources), total_cost is the least cost.
C4_GreedyCostMinimalWhenOrdersAgree ==
  (/\ solver.pc = "done"
   /\ demand <= TotalCapacity(power_sources)
   /\ VisitOrderIsCostOrder(power_sources)) =>
    IsMinCost(power_sources, demand, solver.total_cost)

C4_Witness ==
  /\ solver.pc = "done"
  /\ demand <= TotalCapacity(power_sources)
  /\ VisitOrderIsCostOrder(power_sources)
  /\ Len(power_sources) >= 2
  /\ Cardinality(DOMAIN solver.generation_plan) >= 2
  /\ solver.sorted_sources # power_sources
  /\ Cardinality(Allocations(power_sources, demand)) >= 2

PlanAmount(name) ==
  IF name \in DOMAIN solver.generation_plan
  THEN solver.generation_plan[name] ELSE 0

\* C5: with demand above the total capacity the plan gives every source its
\* full capacity, total_generated is the total capacity and below demand,
\* the handler completes, and the shortfall shown is demand minus
\* total_generated.
C5_UnderSupplyReported ==
  (solver.pc = "done" /\ demand > TotalCapacity(power_sources)) =>
    /\ \A i \in 1..Len(power_sources) :
         PlanAmount(power_sources[i].name) = power_sources[i].capacity
    /\ solver.total_generated = TotalCapacity(power_sources)
    /\ solver.total_generated < demand
    /\ solver.shown = [met |-> FALSE,
                       shortfall |-> demand - solver.total_generated]

C5_Witness ==
  /\ solver.pc = "done"
  /\ demand > TotalCapacity(power_sources)
  /\ Cardinality(DOMAIN solver.generation_plan) >= 2
  /\ solver.shown.shortfall >= 1

\* =============================================== shortest-path properties
\* every path from the end of p to t that repeats no node, as an extension of p
RECURSIVE PathsFrom(_, _, _)
PathsFrom(G, p, t) ==
  IF p[Len(p)] = t THEN {p}
  ELSE UNION {PathsFrom(G, Append(p, n), t) :
                n \in SeqToSet(neighbors(G, p[Len(p)])) \ SeqToSet(p)}

SimplePaths(G, s, t) == PathsFrom(G, <<s>>, t)

PathWeight(G, p) ==
  Sum([i \in 1..(Len(p) - 1) |-> G.edge[<<p[i], p[i + 1]>>].distance],
      1..(Len(p) - 1))

MinWeight(G, s, t) ==
  LET W == {PathWeight(G, p) : p \in SimplePaths(G, s, t)}
  IN CHOOSE w \in W : \A x \in W : w <= x

\* C6: on the reference network the route from hydro1 to city2 is
\* hydro1, sub2, city2 with weight 1.8 + 1.1 = 2.9 km, and no other path
\* between them is as short, so no run can return another.
C6_HydroToCity2 ==
  (/\ grid_graph = initialize_data
   /\ sel = [source |-> "hydro1", target |-> "city2"]
   /\ route # NoResult) =>
    /\ route = [status |-> "found", path |-> <<"hydro1", "sub2", "city2">>,
                total_distance |-> 18 + 11]
    /\ \A p \in SimplePaths(grid_graph, "hydro1", "city2") :
         PathWeight(grid_graph, p) <= 29 => p = <<"hydro1", "sub2", "city2">>

C6_Witness ==
  /\ grid_graph = initialize_data
  /\ sel = [source |-> "hydro1", target |-> "city2"]
  /\ route # NoResult
  /\ Cardinality(SimplePaths(grid_graph, "hydro1", "city2")) >= 2

\* C7: whenever a route is found, its weight is the least total distance
\* over the simple paths from source to target, and the path returned is
\* one of these simple paths and its distances add up to that weight.
C7_ShortestPathOptimal ==
  route.status = "found" =>
    /\ route.total_distance = MinWeight(grid_graph, sel.source, sel.target)
    /\ route.path \in SimplePaths(grid_graph, sel.source, sel.target)
    /\ PathWeight(grid_graph, route.path) = route.total_distance

C7_Witness ==
  /\ grid_graph = initialize_data
  /\ sel = [source |-> "solar1", target |-> "city1"]
  /\ route.status = "found"
  /\ Len(route.path) = 3

\* C11 (as stated): with a target that is reachable from start, the visited
\* order dfs or bfs returns ends with the target and holds it once, so no
\* node is visited after it.
C11_StopsAtTarget ==
  (/\ args.target # None
   /\ args.start \in GraphNodes(grid_graph)
   /\ args.target \in Reachable(grid_graph, args.start)) =>
    \A fn \in {"dfs", "bfs"} :
      rets[fn] # NoResult =>
        /\ rets[fn].status = "returned"
        /\ rets[fn].path # <<>>
        /\ rets[fn].path[Len(rets[fn].path)] = args.target
        /\ Cardinality({i \in 1..Len(rets[fn].path) :
                          rets[fn].path[i] = args.target}) = 1

\* C12: with a target that is not reachable from start, or is no node of
\* the graph, dfs and bfs raise nothing and return exactly the nodes
\* reachable from start, the target not among them.
C12_UnreachedTargetFullComponent ==
  (/\ args.target # None
   /\ args.start \in GraphNodes(grid_graph)
   /\ args.target \notin Reachable(grid_graph, args.start)) =>
    \A fn \in {"dfs", "bfs"} :
      rets[fn] # NoResult =>
        /\ rets[fn].status = "returned"
        /\ SeqToSet(rets[fn].path) = Reachable(grid_graph, args.start)
        /\ args.target \notin SeqToSet(rets[fn].path)

C12_Witness ==
  /\ args.target \in GraphNodes(grid_graph)
  /\ args.start \in GraphNodes(grid_graph)
  /\ args.target \notin Reachable(grid_graph, args.start)
  /\ Cardinality(Reachable(grid_graph, args.start)) >= 3
  /\ rets["dfs"].status = "returned"
  /\ rets["bfs"].status = "returned"

\* C13 (as stated): with a start that is no node of the graph, dfs and bfs
\* raise whatever the target, and return no visited order.
C13_AbsentStartRaises ==
  args.start \notin GraphNodes(grid_graph) =>
    \A fn \in {"dfs", "bfs"} :
      rets[fn] # NoResult => rets[fn].status = "raised"

\* C14: when source and target are nodes of the network and no path joins
\* them, the request ends in the no-path error and yields neither a path
\* nor a weight.
C14_NoPathError ==
  (/\ route # NoResult
   /\ sel.source \in GraphNodes(grid_graph)
   /\ sel.target \in GraphNodes(grid_graph)
   /\ sel.target \notin Reachable(grid_graph, sel.source)) =>
    /\ route.status = "no_path"
    /\ "path" \notin DOMAIN route
    /\ "total_distance" \notin DOMAIN route

C14_Witness ==
  /\ route.status = "no_path"
  /\ sel.source \in GraphNodes(grid_graph)
  /\ sel.target \in GraphNodes(grid_graph)
  /\ Cardinality(Reachable(grid_graph, sel.source)) >= 2
  /\ Cardinality(Reachable(grid_graph, sel.target)) >= 2

\* C17: when the list handed to bubble_sort is already in non-decreasing
\* order of key, the call reports n(n-1)/2 comparisons and no swap, n being
\* the length of the list.
C17_BubbleSortedInputCounts ==
  (ret.op = "bubble_sort" /\ NonDecreasing(ret.given)) =>
    /\ 2 * ret.comparisons = Len(ret.given) * (Len(ret.given) - 1)
    /\ ret.swaps = 0

C17_Witness ==
  /\ ret.op = "bubble_sort"
  /\ NonDecreasing(ret.given)
  /\ Len(ret.given) >= 3
  /\ \E i \in 1..(Len(ret.given) - 1) :
       key_func(ret.given[i]) = key_func(ret.given[i + 1])
  /\ \E i \in 1..(Len(ret.given) - 1) :
       key_func(ret.given[i]) < key_func(ret.given[i + 1])

\* ================================================== path-count properties
\* p leads from s to t along edges of G and repeats no node
IsSimplePath(G, p, s, t) ==
  /\ p # <<>>
  /\ p[1] = s
  /\ p[Len(p)] = t
  /\ \A i \in 1..(Len(p) - 1) : <<p[i], p[i + 1]>> \in DOMAIN G.edge
  /\ \A i, j \in 1..Len(p) : p[i] = p[j] => i = j

\* C15: when the button is pressed with max_length = k and pressed again
\* with max_length = k + 1 for the same source and target, every path
\* listed the first time is listed the second time.
C15_MonotoneInMaxLength ==
  (/\ all_paths # NoResult
   /\ earlier # NoResult
   /\ all_paths.max_length = earlier.max_length + 1) =>
    SeqToSet(earlier.paths) \subseteq SeqToSet(all_paths.paths)

C15_Witness ==
  /\ all_paths # NoResult
  /\ earlier # NoResult
  /\ all_paths.max_length = earlier.max_length + 1
  /\ earlier.paths # <<>>
  /\ Len(all_paths.paths) > Len(earlier.paths)

\* C16: the paths listed are exactly the simple paths from source to
\* target with at most max_length edges, each listed once; with no such
\* path the list is empty and nothing is raised.
C16_ExactlyTheBoundedSimplePaths ==
  all_paths # NoResult =>
    /\ all_paths.status = "listed"
    /\ \A i \in 1..Len(all_paths.paths) :
         /\ IsSimplePath(grid_graph, all_paths.paths[i],
                         count.source, count.target)
         /\ Len(all_paths.paths[i]) - 1 <= all_paths.max_length
    /\ \A p \in SimplePaths(grid_graph, count.source, count.target) :
         Len(p) - 1 <= all_paths.max_length =>
           Cardinality({i \in 1..Len(all_paths.paths) :
                          all_paths.paths[i] = p}) = 1
    /\ all_paths.count = Len(all_paths.paths)

C16_Witness ==
  /\ all_paths # NoResult
  /\ Len(all_paths.paths) >= 2
  /\ \E p \in SimplePaths(grid_graph, count.source, count.target) :
       Len(p) - 1 = all_paths.max_length
  /\ \E p \in SimplePaths(grid_graph, count.source, count.target) :
       Len(p) - 1 > all_paths.max_length

\* ==================================================== session properties
\* C18: no step of a session changes grid_graph: its nodes, their order and
\* attributes, its edges and their attributes, its adjacency lists.
C18_GraphReadOnly == [][grid_graph' = grid_graph]_vars

C18_Witness ==
  /\ power_queue # <<>>
  /\ power_queue[1] # label("REQ-", 1)
  /\ history_stack # <<>>
  /\ rets["dfs"].status = "returned"
  /\ rets["bfs"].status = "returned"

GenerationTypes == {"solar", "wind", "hydro"}

\* the edges of G as unordered pairs
UndirectedEdges(G) == {{e[1], e[2]} : e \in DOMAIN G.edge}

\* C19: in every state of a session grid_graph has 8 nodes, 3 generation,
\* 2 substation and 3 consumer, and 9 undirected edges; every edge joins two
\* different nodes of the graph and is listed once at each of them; and a
\* node has a capacity and no demand when it is a generation or substation
\* node, a demand and no capacity when it is a consumer.
C19_ReferenceNetworkWellFormed ==
  LET G == grid_graph
      N == GraphNodes(G)
      Typed(T) == {n \in N : "type" \in DOMAIN G.node[n] /\ G.node[n].type \in T}
  IN /\ Cardinality(N) = 8
     /\ Len(G.node_order) = 8
     /\ Cardinality(Typed(GenerationTypes)) = 3
     /\ Cardinality(Typed({"substation"})) = 2
     /\ Cardinality(Typed({"consumer"})) = 3
     /\ Cardinality(UndirectedEdges(G)) = 9
     /\ \A e \in DOMAIN G.edge :
          /\ e[1] \in N /\ e[2] \in N
          /\ e[1] # e[2]
          /\ <<e[2], e[1]>> \in DOMAIN G.edge
          /\ G.edge[<<e[2], e[1]>>] = G.edge[e]
          /\ Count(G.adj[e[1]], e[2]) = 1
     /\ \A n \in N : \A i \in 1..Len(G.adj[n]) : <<n, G.adj[n][i]>> \in DOMAIN G.edge
     /\ \A n \in N :
          /\ ("capacity" \in DOMAIN G.node[n]) # ("demand" \in DOMAIN G.node[n])
          /\ ("capacity" \in DOMAIN G.node[n]) <=>
               (n \in Typed(GenerationTypes \cup {"substation"}))
          /\ ("demand" \in DOMAIN G.node[n]) <=> (n \in Typed({"consumer"}))

C19_Witness ==
  /\ Len(power_queue) >= 2
  /\ history_stack # <<>>
  /\ all_paths # NoResult
  /\ Len(all_paths.paths) >= 2

\* ================================================ termination properties
\* C20: a call of dfs or bfs with a start node of the graph leaves its
\* loop: it comes to a state where it has returned, the frontier being
\* empty or the target visited.
C20_TraversalTerminates ==
  (frame.pc = "loop" /\ frame.start \in GraphNodes(grid_graph)) ~>
    (/\ frame.pc = "done"
     /\ frame.frontier = <<>> \/ frame.target \in frame.visited)

C20_Witness ==
  /\ frame.pc = "done"
  /\ frame.frontier = <<>>
  /\ rets["dfs"].status = "returned"
  /\ rets["bfs"].status = "returned"
  /\ Cardinality(frame.visited) >= 4
  /\ Len(neighbors(grid_graph, frame.start)) >= 2

\* ============================================== traversal order properties
\* C21: when dfs appends a node to the visited order and the node v appended
\* before it still had neighbours outside the visited set, the node appended
\* is the first of these in the adjacency list of v.
C21_DfsTakesFirstUnvisitedNeighbour ==
  [][(/\ frame.pc = "loop"
      /\ frame.fn = "dfs"
      /\ frame.path # <<>>
      /\ Len(frame'.path) = Len(frame.path) + 1
      /\ Unvisited(neighbors(grid_graph, frame.path[Len(frame.path)]),
                   frame.visited) # <<>>)
     => frame'.path[Len(frame'.path)] =
          Head(Unvisited(neighbors(grid_graph, frame.path[Len(frame.path)]),
                         frame.visited))]_vars

C21_Witness ==
  /\ frame.pc = "loop"
  /\ frame.fn = "dfs"
  /\ Len(frame.path) >= 3
  /\ LET v == frame.path[2]
         u == Unvisited(neighbors(grid_graph, v), {frame.path[1], v})
     IN Len(u) >= 2 /\ frame.path[3] = Head(u)

\* the entry the next iteration takes from the frontier
NextPopped ==
  IF frame.fn = "dfs" THEN pop(frame.frontier) ELSE popleft(frame.frontier)

\* C22: at every step of a call the visited order holds each node once and
\* holds exactly the nodes of the visited set; an iteration that takes an
\* already visited entry from the frontier only drops that entry; and what a
\* call returns is the visited order with its length.
C22_VisitedOrderMatchesVisitedSet ==
  /\ [](/\ frame.pc # "idle" =>
             /\ SeqToSet(frame.path) = frame.visited
             /\ \A i, j \in 1..Len(frame.path) :
                  frame.path[i] = frame.path[j] => i = j
        /\ \A fn \in {"dfs", "bfs"} :
             rets[fn].status = "returned" =>
               /\ rets[fn].count = Len(rets[fn].path)
               /\ \A i, j \in 1..Len(rets[fn].path) :
                    rets[fn].path[i] = rets[fn].path[j] => i = j)
  /\ [][(/\ frame.pc = "loop"
         /\ frame.frontier # <<>>
         /\ NextPopped.item \in frame.visited)
        => /\ frame' = [frame EXCEPT !.frontier = NextPopped.rest]
           /\ rets' = rets]_vars

C22_Witness ==
  /\ frame.pc = "loop"
  /\ frame.fn = "bfs"
  /\ Len(frame.path) >= 3
  /\ Len(frame.frontier) >= 2
  /\ NextPopped.item \in frame.visited
  /\ rets["dfs"].status = "returned"

\* ============================================ greedy plan order properties
\* source i comes before source j by ascending cost/efficiency, sources of
\* equal ratio in input order
Precedes(srcs, i, j) ==
  /\ i # j
  /\ \/ ratio_lt(srcs[i], srcs[j])
     \/ i < j /\ ~ratio_lt(srcs[j], srcs[i])

\* what the plan gives to the sources that come before source j
GivenBefore(srcs, j) ==
  LET B == {i \in 1..Len(srcs) : Precedes(srcs, i, j)}
  IN Sum([i \in 1..Len(srcs) |-> PlanAmount(srcs[i].name)], B)

\* C23: in the final plan a source has a positive amount only if every
\* source before it, by ascending cost/efficiency and input order among
\* equal ratios, has its full capacity; and a source reached while demand is
\* not yet met has the lesser of the demand remaining and its capacity.
C23_GreedyFillsInRatioOrder ==
  solver.pc = "done" =>
    \A j \in 1..Len(power_sources) :
      /\ PlanAmount(power_sources[j].name) > 0 =>
           \A i \in 1..Len(power_sources) :
             Precedes(power_sources, i, j) =>
               PlanAmount(power_sources[i].name) = power_sources[i].capacity
      /\ GivenBefore(power_sources, j) < demand =>
           PlanAmount(power_sources[j].name) =
             min(demand - GivenBefore(power_sources, j),
                 power_sources[j].capacity)

C23_Witness ==
  /\ solver.pc = "done"
  /\ \E i, j \in 1..Len(power_sources) :
       /\ i < j
       /\ ~ratio_lt(power_sources[i], power_sources[j])
       /\ ~ratio_lt(power_sources[j], power_sources[i])
       /\ power_sources[i].cost_per_mw # power_sources[j].cost_per_mw
       /\ PlanAmount(power_sources[i].name) > 0
       /\ power_sources[j].capacity > 0
       /\ PlanAmount(power_sources[j].name) < power_sources[j].capacity

\* the plan as a function on the names it holds
PlanCost(srcs) ==
  Sum([i \in 1..Len(srcs) |-> PlanAmount(srcs[i].name) * srcs[i].cost_per_mw],
      1..Len(srcs))

PlanTotal(srcs) ==
  Sum([i \in 1..Len(srcs) |-> PlanAmount(srcs[i].name)], 1..Len(srcs))

\* C25: from the start of the loop to the end of the handler every amount
\* in the plan is above 0 and within its source's capacity, total_generated
\* is the sum of the amounts and at most demand, total_cost is the sum of
\* amount times cost per MW; at the end total_generated is the lesser of
\* demand and the total capacity.
C25_GreedyPlanInvariants ==
  solver.pc \in {"loop", "report", "done"} =>
    /\ DOMAIN solver.generation_plan \subseteq
         {power_sources[i].name : i \in 1..Len(power_sources)}
    /\ \A i \in 1..Len(power_sources) :
         power_sources[i].name \in DOMAIN solver.generation_plan =>
           /\ solver.generation_plan[power_sources[i].name] > 0
           /\ solver.generation_plan[power_sources[i].name]
                <= power_sources[i].capacity
    /\ solver.total_generated = PlanTotal(power_sources)
    /\ solver.total_generated <= demand
    /\ solver.total_cost = PlanCost(power_sources)
    /\ solver.pc \in {"report", "done"} =>
         solver.total_generated = min(demand, TotalCapacity(power_sources))

C25_Witness ==
  /\ solver.pc = "loop"
  /\ solver.i <= Len(solver.sorted_sources)
  /\ Cardinality(DOMAIN solver.generation_plan) >= 1
  /\ solver.total_generated < demand
  /\ solver.total_cost > solver.total_generated

\* the keys of a list, in list order
KeysOf(a) == [i \in 1..Len(a) |-> key_func(a[i])]

\* some pair of equal-keyed items comes back in the opposite order
ReversesEqualKeys(given, out) ==
  \E p, q \in 1..Len(out) :
    /\ p < q
    /\ key_func(out[p]) = key_func(out[q])
    /\ PosIn(given, out[p]) > PosIn(given, out[q])

\* C24: quick_sort is not stable. On the three items with keys 2, 2, 1 it
\* returns the third item, then the second, then the first: the two items
\* of key 2 come back in the opposite order from the input.
C24_QuickSortNotStable ==
  (ret.op = "quick_sort" /\ KeysOf(ret.given) = <<2, 2, 1>>) =>
    /\ heap[ret.ref] = <<ret.given[3], ret.given[2], ret.given[1]>>
    /\ ReversesEqualKeys(ret.given, heap[ret.ref])

C24_Witness ==
  /\ ret.op = "quick_sort"
  /\ KeysOf(ret.given) = <<2, 2, 1>>
  /\ ReversesEqualKeys(ret.given, heap[ret.ref])

StrictlyIncreasing(a) ==
  \A i \in 1..(Len(a) - 1) : key_func(a[i]) < key_func(a[i + 1])

\* C26: on a non-empty list that is already ascending with pairwise
\* distinct keys, quick_sort reports n(n-1)/2 comparisons and
\* n(n-1)/2 + (n-1) swaps, and returns every item at the position it had.
C26_QuickSortSortedInputCounts ==
  (ret.op = "quick_sort" /\ Len(ret.given) >= 1
     /\ StrictlyIncreasing(ret.given)) =>
    LET n == Len(ret.given)
    IN /\ ret.comparisons = (n * (n - 1)) \div 2
       /\ ret.swaps = (n * (n - 1)) \div 2 + (n - 1)
       /\ heap[ret.ref] = ret.given

C26_Witness ==
  /\ ret.op = "quick_sort"
  /\ Len(ret.given) = MaxLen
  /\ StrictlyIncreasing(ret.given)
  /\ ret.swaps > ret.comparisons
  /\ heap[ret.ref] = ret.given

\* pairs of positions i < j whose keys are out of order
Inversions(a) ==
  Cardinality({p \in (1..Len(a)) \X (1..Len(a)) :
                 p[1] < p[2] /\ key_func(a[p[1]]) > key_func(a[p[2]])})

\* C27: bubble_sort reports as many swaps as the input has inversions, and
\* n(n-1)/2 comparisons whatever the order of the input.
C27_BubbleSwapsAreInversions ==
  ret.op = "bubble_sort" =>
    LET n == Len(ret.given)
    IN /\ ret.swaps = Inversions(ret.given)
       /\ ret.comparisons = (n * (n - 1)) \div 2

C27_Witness ==
  /\ ret.op = "bubble_sort"
  /\ Len(ret.given) = MaxLen
  /\ Inversions(ret.given) >= 3
  /\ ret.swaps = Inversions(ret.given)
  /\ ret.swaps < ret.comparisons
  /\ \E i \in 1..(Len(ret.given) - 1) :
       key_func(ret.given[i]) = key_func(ret.given[i + 1])

\* C28: binary_search reports no false hit, sorted input or not: an index
\* other than -1 lies in 0..len-1 and the item there has the target key.
\* The call always returns, so the one wrong answer left is -1 for a key
\* that is in the list.
C28_BinarySearchNoFalseHit ==
  ret.op = "binary_search" =>
    /\ ret.index \in -1..(Len(ret.given) - 1)
    /\ ret.index # -1 => key_func(At(ret.given, ret.index)) = ret.target
    /\ ret.comparisons \in 0..Len(ret.given)

C28_Witness ==
  /\ ret.op = "binary_search"
  /\ ~NonDecreasing(ret.given)
  /\ ret.index = -1
  /\ \E i \in 1..Len(ret.given) : key_func(ret.given[i]) = ret.target

\* least number of edges from the nodes of S, themselves d edges from the
\* start, to v; MaxNodes + 1 when no path joins them
RECURSIVE HopsFrom(_, _, _, _, _)
HopsFrom(G, S, seen, v, d) ==
  IF v \in S THEN d
  ELSE LET T == {m \in GraphNodes(G) \ (seen \cup S) :
                   \E n \in S : <<n, m>> \in DOMAIN G.edge}
       IN IF T = {} THEN MaxNodes + 1
          ELSE HopsFrom(G, T, seen \cup S, v, d + 1)

Hops(G, s, v) == HopsFrom(G, {s}, {}, v, 0)

NonDecreasingHops(G, s, path) ==
  \A i, j \in 1..Len(path) :
    i < j => Hops(G, s, path[i]) <= Hops(G, s, path[j])

\* C29: bfs visits nodes in non-decreasing order of hop distance from
\* start: a node that comes earlier in the visited order is at most as
\* many edges away from start as one that comes later. This holds of the
\* order while it is built and of the order bfs returns.
C29_BfsOrderByHops ==
  /\ (frame.pc # "idle" /\ frame.fn = "bfs") =>
       NonDecreasingHops(grid_graph, args.start, frame.path)
  /\ rets["bfs"].status = "returned" =>
       NonDecreasingHops(grid_graph, args.start, rets["bfs"].path)

C29_Witness ==
  /\ rets["bfs"].status = "returned"
  /\ rets["dfs"].status = "returned"
  /\ Len(rets["bfs"].path) >= 4
  /\ Hops(grid_graph, args.start, rets["bfs"].path[2]) = 1
  /\ Hops(grid_graph, args.start, rets["bfs"].path[3]) = 1
  /\ Hops(grid_graph, args.start, rets["bfs"].path[4]) = 2
  /\ ~NonDecreasingHops(grid_graph, args.start, rets["dfs"].path)

\* the text REQ-ddd for a number below 1000, digit by digit
RequestLabel(n) ==
  [prefix |-> "REQ-", number |-> <<n \div 100, (n \div 10) % 10, n % 10>>]

\* C30: the power-request queue changes in two ways only: a request
\* labelled REQ-(queue length + 1) joins at the end, or, the queue being
\* non-empty, its oldest entry leaves. Labels are therefore not unique:
\* add, add, dequeue, add leaves two entries REQ-002 in the queue.
C30_QueueLabelsByLength ==
  [][power_queue' # power_queue =>
       \/ power_queue' = Append(power_queue, RequestLabel(Len(power_queue) + 1))
       \/ /\ power_queue # <<>>
          /\ power_queue' = Tail(power_queue)]_vars

C30_Witness == power_queue = <<RequestLabel(2), RequestLabel(2)>>

====
